---- MODULE Spec2Model ----
(***************************************************************************)
(* A model of the data-preparation scripts of human-head-viewer:           *)
(*   scripts/data-generation/downsample-ply.py   (binary PLY codec and     *)
(*                                                label-preserving         *)
(*                                                downsampler)             *)
(*   scripts/data-generation/generate-tissue-properties.py                 *)
(*                                                (property table builder) *)
(*   scripts/mesh-tools/convert-mat-to-vtk.py    (label volume converter)  *)
(* Files are sequences of bytes (0..255).  A float32 is represented by its *)
(* 32-bit IEEE-754 pattern; only patterns below 2^31 (non-negative floats) *)
(* are used, so that every integer of the model fits TLC's integers.       *)
(***************************************************************************)
EXTENDS Integers, Sequences, FiniteSets, TLC

VARIABLES
    disk,       \* codec: the bytes of the file at `filepath`
    given,      \* codec: what was handed to the codec (a mesh, or a foreign file)
    wres,       \* codec: outcome of write_ply_with_tissue_id
    dec,        \* codec: outcome of read_ply_with_tissue_id
    phase,      \* codec: "idle", "written", "placed", "read"
    in_given,   \* downsample_ply: what the file at input_file holds
    out_file,   \* downsample_ply: the file at output_file
    ds,         \* downsample_ply: its arguments and local variables
    ds_pc,      \* downsample_ply: the statement it is at
    tbl_rows,   \* table builder: the rows of the main sheet read so far
    tissue_properties,  \* table builder: the mapping from names to records
    tbl_json,   \* table builder: what json.dump wrote to tissue_properties.json
    tbl_pc,     \* table builder: "rows" (in the loop over the rows), "saved"
    mat_file,   \* convert_mat_to_vti: what the file at mat_file_path holds
    vti_file,   \* convert_mat_to_vti: the file at output_path
    cv,         \* convert_mat_to_vti: its local variables
    cv_pc       \* convert_mat_to_vti: the statement it is at

codecVars == <<disk, given, wres, dec, phase>>

dsVars == <<in_given, out_file, ds, ds_pc>>

tblVars == <<tbl_rows, tissue_properties, tbl_json, tbl_pc>>

cvVars == <<mat_file, vti_file, cv, cv_pc>>

vars == <<codecVars, dsVars, tblVars, cvVars>>

----------------------------------------------------------------------------
(* Bounds of the model.                                                    *)

\* most vertices of a mesh handed to the encoder
MaxVerts == 2
\* most faces of a mesh handed to the encoder
MaxFaces == 1
\* most vertex records of a foreign input file
MaxEnvVerts == 1
\* most face records of a foreign input file
MaxEnvFaces == 2
\* most vertices of a mesh handed to downsample_ply
MaxOrig == 2
\* most faces of a mesh handed to downsample_ply
MaxOrigFaces == 1
\* most vertices the simplifier returns
MaxNew == 1
\* most rows of the main sheet of the property database
MaxRows == 2
\* most voxels of a label volume, and its largest dimension
MaxVoxels == 2

----------------------------------------------------------------------------
(* Byte strings.                                                           *)

\* 'ply'
LIT_ply ==
    <<112, 108, 121>>
\* 'end_header'
LIT_end_header ==
    <<101, 110, 100, 95, 104, 101, 97, 100, 101, 114>>
\* 'format'
LIT_format ==
    <<102, 111, 114, 109, 97, 116>>
\* 'element vertex'
LIT_element_vertex ==
    <<101, 108, 101, 109, 101, 110, 116, 32, 118, 101, 114, 116, 101, 120>>
\* 'element face'
LIT_element_face ==
    <<101, 108, 101, 109, 101, 110, 116, 32, 102, 97, 99, 101>>
\* 'property uchar tissue_id'
LIT_property_uchar_tissue_id ==
    <<112, 114, 111, 112, 101, 114, 116, 121, 32, 117, 99, 104, 97, 114, 32, 116, 105, 115, 115, 117, 101, 95, 105, 100>>
\* 'binary_little_endian'
LIT_binary_little_endian ==
    <<98, 105, 110, 97, 114, 121, 95, 108, 105, 116, 116, 108, 101, 95, 101, 110, 100, 105, 97, 110>>

\* The header f-string of write_ply_with_tissue_id, cut at its two holes.
\* 'ply\nformat binary_little_endian 1.0\ncomment Downsampled human head model with tissue IDs\nelement vertex '
HDR_1 ==
    <<112, 108, 121, 10, 102, 111, 114, 109, 97, 116, 32, 98, 105, 110, 97, 114, 121, 95, 108, 105, 116, 116, 108, 101, 95, 101, 110, 100, 105, 97, 110, 32, 49, 46, 48, 10, 99, 111, 109, 109, 101, 110, 116, 32, 68, 111, 119, 110, 115, 97, 109, 112, 108, 101, 100, 32, 104, 117, 109, 97, 110, 32, 104, 101, 97, 100, 32, 109, 111, 100, 101, 108, 32, 119, 105, 116, 104, 32, 116, 105, 115, 115, 117, 101, 32, 73, 68, 115, 10, 101, 108, 101, 109, 101, 110, 116, 32, 118, 101, 114, 116, 101, 120, 32>>
\* '\nproperty float x\nproperty float y\nproperty float z\nproperty uchar tissue_id\nelement face '
HDR_2 ==
    <<10, 112, 114, 111, 112, 101, 114, 116, 121, 32, 102, 108, 111, 97, 116, 32, 120, 10, 112, 114, 111, 112, 101, 114, 116, 121, 32, 102, 108, 111, 97, 116, 32, 121, 10, 112, 114, 111, 112, 101, 114, 116, 121, 32, 102, 108, 111, 97, 116, 32, 122, 10, 112, 114, 111, 112, 101, 114, 116, 121, 32, 117, 99, 104, 97, 114, 32, 116, 105, 115, 115, 117, 101, 95, 105, 100, 10, 101, 108, 101, 109, 101, 110, 116, 32, 102, 97, 99, 101, 32>>
\* '\nproperty list uchar int vertex_indices\nend_header\n'
HDR_3 ==
    <<10, 112, 114, 111, 112, 101, 114, 116, 121, 32, 108, 105, 115, 116, 32, 117, 99, 104, 97, 114, 32, 105, 110, 116, 32, 118, 101, 114, 116, 101, 120, 95, 105, 110, 100, 105, 99, 101, 115, 10, 101, 110, 100, 95, 104, 101, 97, 100, 101, 114, 10>>

\* The characters str.strip() and str.split() treat as whitespace (ASCII).
Whitespace == {9, 10, 11, 12, 13, 28, 29, 30, 31, 32}

\* bytes.decode('ascii') succeeds
IsAscii(s) == \A i \in 1..Len(s) : s[i] < 128

\* str.startswith
StartsWith(s, p) == Len(s) >= Len(p) /\ SubSeq(s, 1, Len(p)) = p

RECURSIVE LStrip(_)
LStrip(s) ==
    IF s # <<>> /\ Head(s) \in Whitespace THEN LStrip(Tail(s)) ELSE s

RECURSIVE RStrip(_)
RStrip(s) ==
    IF s # <<>> /\ s[Len(s)] \in Whitespace
    THEN RStrip(SubSeq(s, 1, Len(s) - 1)) ELSE s

\* str.strip()
Strip(s) == RStrip(LStrip(s))

\* str.split(): the maximal runs of non-whitespace, in order
RECURSIVE SplitFrom(_, _, _)
SplitFrom(s, cur, acc) ==
    IF s = <<>>
    THEN IF cur = <<>> THEN acc ELSE Append(acc, cur)
    ELSE IF Head(s) \in Whitespace
         THEN SplitFrom(Tail(s), <<>>, IF cur = <<>> THEN acc ELSE Append(acc, cur))
         ELSE SplitFrom(Tail(s), Append(cur, Head(s)), acc)

Split(s) == SplitFrom(s, <<>>, <<>>)

\* f"{n}" of a non-negative integer: its decimal digits
RECURSIVE ToDecimal(_)
ToDecimal(n) ==
    IF n < 10 THEN <<48 + n>> ELSE Append(ToDecimal(n \div 10), 48 + (n % 10))

IsDigit(c) == c >= 48 /\ c <= 57

RECURSIVE DigitsValue(_, _)
DigitsValue(s, acc) ==
    IF s = <<>> THEN acc
    ELSE IF Head(s) = 95 THEN DigitsValue(Tail(s), acc)
         ELSE DigitsValue(Tail(s), 10 * acc + (Head(s) - 48))

\* int(token) of a token without whitespace: an optional sign, then digits
\* that single underscores may separate; anything else raises ValueError.
ParseInt(tok) ==
    LET signed == tok # <<>> /\ Head(tok) \in {43, 45}
        body   == IF signed THEN Tail(tok) ELSE tok
        wellformed ==
            /\ body # <<>>
            /\ \A i \in 1..Len(body) : IsDigit(body[i]) \/ body[i] = 95
            /\ IsDigit(body[1]) /\ IsDigit(body[Len(body)])
            /\ \A i \in 1..(Len(body) - 1) : ~(body[i] = 95 /\ body[i + 1] = 95)
        mag == DigitsValue(body, 0)
    IN  IF wellformed
        THEN [ok |-> TRUE, val |-> IF signed /\ Head(tok) = 45 THEN 0 - mag ELSE mag]
        ELSE [ok |-> FALSE, val |-> 0]

\* struct.pack('<I', v) and struct.pack('<f', x) of a float32 with pattern v
PackLE32(v) ==
    <<v % 256, (v \div 256) % 256, (v \div 65536) % 256, (v \div 16777216) % 256>>

\* struct.unpack('<I', b) / the pattern of struct.unpack('<f', b)
UnpackLE32(b) == b[1] + 256 * b[2] + 65536 * b[3] + 16777216 * b[4]

RECURSIVE Concat(_)
Concat(ss) == IF ss = <<>> THEN <<>> ELSE Head(ss) \o Concat(Tail(ss))

----------------------------------------------------------------------------
(* write_ply_with_tissue_id                                                *)

\* PackVertex with the first two coordinates written in the wrong order
PackVertex_swapped(v, tid) ==
    PackLE32(v[2]) \o PackLE32(v[1]) \o PackLE32(v[3]) \o <<tid>>

\* struct.pack('<fffB', vertices[i,0], vertices[i,1], vertices[i,2], tissue_ids[i])
PackVertex(v, tid) ==
    PackLE32(v[1]) \o PackLE32(v[2]) \o PackLE32(v[3]) \o <<tid>>

\* struct.pack('<B', 3) then struct.pack('<III', face[0], face[1], face[2])
PackFace(face) ==
    <<3>> \o PackLE32(face[1]) \o PackLE32(face[2]) \o PackLE32(face[3])

\* the header written by f.write(header.encode('ascii'))
HeaderBytes(nv, nf) ==
    HDR_1 \o ToDecimal(nv) \o HDR_2 \o ToDecimal(nf) \o HDR_3

\* The whole of write_ply_with_tissue_id: opening with 'wb' empties the file,
\* then the header, the vertex records and the face records are appended.
\* tissue_ids[i] raises IndexError when there are fewer labels than vertices,
\* and struct.pack('<III', ...) raises struct.error on a negative index; what
\* was written before the exception stays in the file.
write_ply_with_tissue_id(vertices, faces, tissue_ids) ==
    LET nv == Len(vertices)
        nf == Len(faces)
        vgood == IF Len(tissue_ids) < nv THEN Len(tissue_ids) ELSE nv
        BadFace(k) == \E j \in 1..3 : faces[k][j] < 0
        fgood == IF \E k \in 1..nf : BadFace(k)
                 THEN (CHOOSE k \in 1..nf :
                          BadFace(k) /\ \A h \in 1..(k - 1) : ~BadFace(h)) - 1
                 ELSE nf
        vbytes == Concat([i \in 1..vgood |-> PackVertex(vertices[i], tissue_ids[i])])
    IN  IF vgood < nv
        THEN [status |-> "error", err |-> "IndexError",
              file |-> HeaderBytes(nv, nf) \o vbytes]
        ELSE IF fgood < nf
        THEN [status |-> "error", err |-> "struct.error",
              file |-> HeaderBytes(nv, nf) \o vbytes
                       \o Concat([k \in 1..fgood |-> PackFace(faces[k])]) \o <<3>>]
        ELSE [status |-> "ok", err |-> "",
              file |-> HeaderBytes(nv, nf) \o vbytes
                       \o Concat([k \in 1..nf |-> PackFace(faces[k])])]

----------------------------------------------------------------------------
(* read_ply_with_tissue_id                                                 *)

\* f.readline(): the bytes from pos up to and including the next b'\n', or up
\* to the end of the file; b'' at the end of the file.
RECURSIVE LineEnd(_, _)
LineEnd(data, pos) ==
    IF pos > Len(data) THEN Len(data)
    ELSE IF data[pos] = 10 THEN pos
    ELSE LineEnd(data, pos + 1)

ReadLine(data, pos) ==
    LET e == LineEnd(data, pos)
    IN  [line |-> SubSeq(data, pos, e), next |-> e + 1]

\* f.read(n): at most n bytes
ReadN(data, pos, n) ==
    LET e == IF pos + n - 1 > Len(data) THEN Len(data) ELSE pos + n - 1
    IN  [bytes |-> SubSeq(data, pos, e), next |-> e + 1]

NoFormat == [set |-> FALSE, tok |-> <<>>]

HeaderInit ==
    [format_type |-> NoFormat, vertex_count |-> 0, face_count |-> 0,
     has_tissue_id |-> FALSE]

\* The `while True` loop over the header lines.  It ends at 'end_header' or with
\* an exception; at the end of the file readline() returns b'', no branch
\* matches and the loop repeats in the same state for ever ("hang").
RECURSIVE HeaderLoop(_, _, _)
HeaderLoop(data, pos, h) ==
    LET r    == ReadLine(data, pos)
        line == Strip(r.line)
        toks == Split(line)
    IN  IF r.line = <<>>
        THEN [status |-> "hang", err |-> "", h |-> h, pos |-> pos]
        ELSE IF ~IsAscii(r.line)
        THEN [status |-> "error", err |-> "UnicodeDecodeError", h |-> h, pos |-> r.next]
        ELSE IF line = LIT_end_header
        THEN [status |-> "body", err |-> "", h |-> h, pos |-> r.next]
        ELSE IF StartsWith(line, LIT_format)
        THEN IF Len(toks) < 2
             THEN [status |-> "error", err |-> "IndexError", h |-> h, pos |-> r.next]
             ELSE HeaderLoop(data, r.next,
                     [h EXCEPT !.format_type = [set |-> TRUE, tok |-> toks[2]]])
        ELSE IF StartsWith(line, LIT_element_vertex)
        THEN IF Len(toks) < 3
             THEN [status |-> "error", err |-> "IndexError", h |-> h, pos |-> r.next]
             ELSE IF ~ParseInt(toks[3]).ok
             THEN [status |-> "error", err |-> "ValueError: int", h |-> h, pos |-> r.next]
             ELSE HeaderLoop(data, r.next,
                     [h EXCEPT !.vertex_count = ParseInt(toks[3]).val])
        ELSE IF StartsWith(line, LIT_element_face)
        THEN IF Len(toks) < 3
             THEN [status |-> "error", err |-> "IndexError", h |-> h, pos |-> r.next]
             ELSE IF ~ParseInt(toks[3]).ok
             THEN [status |-> "error", err |-> "ValueError: int", h |-> h, pos |-> r.next]
             ELSE HeaderLoop(data, r.next,
                     [h EXCEPT !.face_count = ParseInt(toks[3]).val])
        ELSE IF line = LIT_property_uchar_tissue_id
        THEN HeaderLoop(data, r.next, [h EXCEPT !.has_tissue_id = TRUE])
        ELSE HeaderLoop(data, r.next, h)

\* The loop over the vertex records: struct.unpack('<fffB', f.read(13)).
RECURSIVE ReadVertices(_, _, _, _, _)
ReadVertices(data, pos, n, vs, tids) ==
    IF n <= 0 THEN [ok |-> TRUE, vertices |-> vs, tissue_ids |-> tids, pos |-> pos]
    ELSE LET r == ReadN(data, pos, 13)
             b == r.bytes
         IN  IF Len(b) < 13
             THEN [ok |-> FALSE, vertices |-> vs, tissue_ids |-> tids, pos |-> r.next]
             ELSE ReadVertices(data, r.next, n - 1,
                     Append(vs, <<UnpackLE32(SubSeq(b, 1, 4)),
                                  UnpackLE32(SubSeq(b, 5, 8)),
                                  UnpackLE32(SubSeq(b, 9, 12))>>),
                     Append(tids, b[13]))

\* ArityAccepted without the test: every arity byte is taken for a triangle
ArityAccepted_unchecked(n_verts) == TRUE

\* whether a face record's arity byte is accepted: `if n_verts != 3: raise`
ArityAccepted(n_verts) == n_verts = 3

\* The loop over the face records: one arity byte, then struct.unpack('<III').
RECURSIVE ReadFaces(_, _, _, _)
ReadFaces(data, pos, n, fs) ==
    IF n <= 0 THEN [status |-> "ok", err |-> "", faces |-> fs, at |-> Len(fs)]
    ELSE LET a == ReadN(data, pos, 1)
             r == ReadN(data, a.next, 12)
         IN  IF Len(a.bytes) < 1
             THEN [status |-> "error", err |-> "struct.error", faces |-> fs, at |-> Len(fs)]
             ELSE IF ~ArityAccepted(a.bytes[1])
             THEN [status |-> "error", err |-> "ValueError: Only triangular faces supported",
                   faces |-> fs, at |-> Len(fs)]
             ELSE IF Len(r.bytes) < 12
             THEN [status |-> "error", err |-> "struct.error", faces |-> fs, at |-> Len(fs)]
             ELSE ReadFaces(data, r.next, n - 1,
                     Append(fs, <<UnpackLE32(SubSeq(r.bytes, 1, 4)),
                                  UnpackLE32(SubSeq(r.bytes, 5, 8)),
                                  UnpackLE32(SubSeq(r.bytes, 9, 12))>>))

Failure(status, err, at) ==
    [status |-> status, err |-> err, at |-> at,
     vertices |-> <<>>, faces |-> <<>>, tissue_ids |-> <<>>]

\* The whole of read_ply_with_tissue_id on the bytes of a file.  status is "ok"
\* (a mesh is returned), "error" (an exception leaves the function) or "hang"
\* (the header loop never ends).  `at` is the number of face records accepted
\* before the outcome.
read_ply_with_tissue_id(data) ==
    LET first == ReadLine(data, 1)
    IN  IF ~IsAscii(first.line) THEN Failure("error", "UnicodeDecodeError", 0)
        ELSE IF Strip(first.line) # LIT_ply
        THEN Failure("error", "ValueError: Not a PLY file", 0)
        ELSE
        LET hl == HeaderLoop(data, first.next, HeaderInit)
            h  == hl.h
        IN  IF hl.status # "body" THEN Failure(hl.status, hl.err, 0)
            ELSE IF ~h.has_tissue_id
            THEN Failure("error", "ValueError: PLY file does not have tissue_id property", 0)
            ELSE IF h.vertex_count < 0
            THEN Failure("error", "ValueError: negative dimensions are not allowed", 0)
            ELSE IF ~(h.format_type.set /\ h.format_type.tok = LIT_binary_little_endian)
            THEN Failure("error", "ValueError: Only binary_little_endian format supported", 0)
            ELSE
            LET rv == ReadVertices(data, hl.pos, h.vertex_count, <<>>, <<>>)
            IN  IF ~rv.ok THEN Failure("error", "struct.error", 0)
                ELSE
                LET rf == ReadFaces(data, rv.pos, h.face_count, <<>>)
                IN  IF rf.status # "ok" THEN Failure("error", rf.err, rf.at)
                    ELSE [status |-> "ok", err |-> "", at |-> rf.at,
                          vertices |-> rv.vertices, faces |-> rf.faces,
                          tissue_ids |-> rv.tissue_ids]

----------------------------------------------------------------------------
(* The codec on its own: a mesh is encoded and decoded again, or a file    *)
(* that some other program wrote is decoded.                               *)

\* The vertices (with their labels) meshes are made of, as float32 patterns:
\* (0.0, 0.0, 0.0) and (1.0, 0.0, 3.14159274).
VertexPool ==
    { [v |-> <<0, 0, 0>>, tid |-> 255],
      [v |-> <<1065353216, 0, 1078530011>>, tid |-> 7] }

SeqsUpTo(S, lo, hi) == UNION { [1..n -> S] : n \in lo..hi }

\* the faces over nv vertices that meshes are made of; an index equal to nv is
\* out of range
FacePool(nv) == { <<a, b, (a + b) % nv>> : a \in 0..nv, b \in 0..nv }

\* The meshes handed to the encoder: 1..MaxVerts vertices and 0..MaxFaces faces.
MeshInputs ==
    UNION { { [vertices |-> [i \in 1..Len(vl) |-> vl[i].v],
               tissue_ids |-> [i \in 1..Len(vl) |-> vl[i].tid],
               faces |-> fs]
              : fs \in SeqsUpTo(FacePool(Len(vl)), 0, MaxFaces) }
            : vl \in SeqsUpTo(VertexPool, 1, MaxVerts) }

\* the §3 invariants of a mesh, with at least one vertex and one face
ValidMesh(m) ==
    /\ Len(m.vertices) >= 1
    /\ Len(m.faces) >= 1
    /\ Len(m.tissue_ids) = Len(m.vertices)
    /\ \A k \in 1..Len(m.faces) : \A j \in 1..3 :
          m.faces[k][j] >= 0 /\ m.faces[k][j] < Len(m.vertices)

\* 'plx\n'
ENV_plx ==
    <<112, 108, 120, 10>>
\* 'ply\n'
ENV_ply ==
    <<112, 108, 121, 10>>
\* 'format binary_little_endian 1.0\n'
ENV_fmt_ble ==
    <<102, 111, 114, 109, 97, 116, 32, 98, 105, 110, 97, 114, 121, 95, 108, 105, 116, 116, 108, 101, 95, 101, 110, 100, 105, 97, 110, 32, 49, 46, 48, 10>>
\* 'format ascii 1.0\n'
ENV_fmt_ascii ==
    <<102, 111, 114, 109, 97, 116, 32, 97, 115, 99, 105, 105, 32, 49, 46, 48, 10>>
\* 'element vertex '
ENV_elem_v ==
    <<101, 108, 101, 109, 101, 110, 116, 32, 118, 101, 114, 116, 101, 120, 32>>
\* 'element face '
ENV_elem_f ==
    <<101, 108, 101, 109, 101, 110, 116, 32, 102, 97, 99, 101, 32>>
\* 'property uchar tissue_id\n'
ENV_tid ==
    <<112, 114, 111, 112, 101, 114, 116, 121, 32, 117, 99, 104, 97, 114, 32, 116, 105, 115, 115, 117, 101, 95, 105, 100, 10>>
\* 'end_header\n'
ENV_end ==
    <<101, 110, 100, 95, 104, 101, 97, 100, 101, 114, 10>>
\* 'property float x\n'
ENV_propx ==
    <<112, 114, 111, 112, 101, 114, 116, 121, 32, 102, 108, 111, 97, 116, 32, 120, 10>>

\* What a foreign file is made of: its first line, its format line (or none),
\* whether it declares tissue_id, whether its header ends with end_header, its
\* number of vertex records and the arity of each of its face records.
EnvParams ==
    [magic : {"ply", "plx"}, fmt : {"ble", "ascii", "none"}, tid : BOOLEAN,
     endh : BOOLEAN, nv : 0..MaxEnvVerts, arities : SeqsUpTo({3, 4}, 0, MaxEnvFaces)]

NoEnv ==
    [magic |-> "ply", fmt |-> "none", tid |-> FALSE, endh |-> FALSE, nv |-> 0,
     arities |-> <<>>]

NoMesh == [vertices |-> <<>>, tissue_ids |-> <<>>, faces |-> <<>>]

\* the bytes of the foreign file g describes; a face record of arity a holds a
\* indices
EnvFile(g) ==
    (IF g.magic = "ply" THEN ENV_ply ELSE ENV_plx)
    \o (IF g.fmt = "ble" THEN ENV_fmt_ble
        ELSE IF g.fmt = "ascii" THEN ENV_fmt_ascii ELSE <<>>)
    \o ENV_elem_v \o ToDecimal(g.nv) \o <<10>>
    \o ENV_propx
    \o (IF g.tid THEN ENV_tid ELSE <<>>)
    \o ENV_elem_f \o ToDecimal(Len(g.arities)) \o <<10>>
    \o (IF g.endh THEN ENV_end ELSE <<>>)
    \o Concat([i \in 1..g.nv |-> PackVertex(<<1065353216, 0, 1078530011>>, 7)])
    \o Concat([k \in 1..Len(g.arities) |->
                 <<g.arities[k]>> \o Concat([j \in 1..g.arities[k] |-> PackLE32(0)])])

NoWrite == [status |-> "none", err |-> "", file |-> <<>>]

CodecInit ==
    /\ disk = <<>>
    /\ given = [kind |-> "none", mesh |-> NoMesh, env |-> NoEnv]
    /\ wres = NoWrite
    /\ dec = Failure("none", "", 0)
    /\ phase = "idle"

\* write_ply_with_tissue_id(filepath, vertices, faces, tissue_ids)
WritePly ==
    /\ phase = "idle"
    /\ \E m \in MeshInputs :
          /\ wres' = write_ply_with_tissue_id(m.vertices, m.faces, m.tissue_ids)
          /\ given' = [kind |-> "mesh", mesh |-> m, env |-> NoEnv]
    /\ disk' = wres'.file
    /\ phase' = "written"
    /\ UNCHANGED <<dec, dsVars, tblVars, cvVars>>

\* another program leaves a file at `filepath`
PlaceFile ==
    /\ phase = "idle"
    /\ \E g \in EnvParams :
          /\ disk' = EnvFile(g)
          /\ given' = [kind |-> "env", mesh |-> NoMesh, env |-> g]
    /\ phase' = "placed"
    /\ UNCHANGED <<wres, dec, dsVars, tblVars, cvVars>>

\* read_ply_with_tissue_id(filepath)
ReadPly ==
    /\ phase \in {"written", "placed"}
    /\ dec' = read_ply_with_tissue_id(disk)
    /\ phase' = "read"
    /\ UNCHANGED <<disk, given, wres, dsVars, tblVars, cvVars>>

NextCodec == WritePly \/ PlaceFile \/ ReadPly

----------------------------------------------------------------------------
(* Claims about the codec.                                                 *)

\* C1: a valid mesh (at least one vertex and one triangular face, one label per
\* vertex, every face index in range) that write_ply_with_tissue_id encoded is
\* returned by read_ply_with_tissue_id with the same vertices, faces and labels,
\* element by element and in the same order.
C1_RoundTrip ==
    (phase = "read" /\ given.kind = "mesh" /\ ValidMesh(given.mesh))
        => /\ wres.status = "ok"
           /\ dec.status = "ok"
           /\ dec.vertices = given.mesh.vertices
           /\ dec.faces = given.mesh.faces
           /\ dec.tissue_ids = given.mesh.tissue_ids

\* C1 happens: a valid mesh of two different vertices, whose face names the
\* second vertex, has been encoded and decoded.
C1_Witness ==
    /\ phase = "read" /\ given.kind = "mesh" /\ ValidMesh(given.mesh)
    /\ Len(given.mesh.vertices) = 2
    /\ given.mesh.vertices[1] # given.mesh.vertices[2]
    /\ given.mesh.faces[1] = <<1, 0, 1>>
    /\ dec.status = "ok"

\* the header of the foreign file is one the decoder must reject
BadHeader(g) == g.magic # "ply" \/ g.fmt # "ble" \/ ~g.tid

\* C2: whenever the first line is not 'ply', or the declared format is not
\* binary_little_endian (or there is no format line), or the header does not
\* declare 'property uchar tissue_id', decoding ends in an error and returns no
\* mesh, whatever the rest of the file holds.
C2_HeaderValidation ==
    (phase = "read" /\ given.kind = "env" /\ BadHeader(given.env))
        => dec.status = "error"

\* the first face record of the file whose arity byte is not 3 (0 if none)
FirstNonTriangle(arities) ==
    IF \E k \in 1..Len(arities) : arities[k] # 3
    THEN CHOOSE k \in 1..Len(arities) :
            arities[k] # 3 /\ \A h \in 1..(k - 1) : arities[h] = 3
    ELSE 0

GoodHeader(g) == g.magic = "ply" /\ g.fmt = "ble" /\ g.tid /\ g.endh

\* C3: reading the face records of a file with a valid header fails at the first
\* face record whose arity byte is not 3, and no mesh that is returned holds a
\* face of another arity than 3.
C3_TriangleOnly ==
    phase = "read" =>
        /\ (given.kind = "env" /\ GoodHeader(given.env)
              /\ FirstNonTriangle(given.env.arities) # 0)
              => /\ dec.status = "error"
                 /\ dec.err = "ValueError: Only triangular faces supported"
                 /\ dec.at = FirstNonTriangle(given.env.arities) - 1
        /\ (given.kind = "env" /\ dec.status = "ok")
              => \A k \in 1..Len(given.env.arities) : given.env.arities[k] = 3
        /\ dec.status = "ok" => \A k \in 1..Len(dec.faces) : Len(dec.faces[k]) = 3

\* C3 happens: a file with a valid header whose second face record is a
\* quadrilateral has been decoded.
C3_Witness ==
    /\ phase = "read" /\ given.kind = "env" /\ GoodHeader(given.env)
    /\ given.env.arities = <<3, 4>>
    /\ dec.status = "error" /\ dec.at = 1

\* some face of the mesh names a vertex that does not exist
FaceOutOfRange(m) ==
    \E k \in 1..Len(m.faces) : \E j \in 1..3 :
        m.faces[k][j] < 0 \/ m.faces[k][j] >= Len(m.vertices)

\* C4: write_ply_with_tissue_id fails, before it writes the body, whenever a
\* face of the mesh references a vertex index outside [0, len(vertices)).
C4_EncodeRangeCheck ==
    (phase \in {"written", "read"} /\ given.kind = "mesh"
        /\ FaceOutOfRange(given.mesh))
        => /\ wres.status = "error"
           /\ Len(disk) <= Len(HeaderBytes(Len(given.mesh.vertices),
                                           Len(given.mesh.faces)))

----------------------------------------------------------------------------
(* downsample_ply                                                          *)

RECURSIVE Pow2(_)
Pow2(k) == IF k <= 0 THEN 1 ELSE 2 * Pow2(k - 1)

RECURSIVE FloorLog2(_)
FloorLog2(x) == IF x < 2 THEN 0 ELSE 1 + FloorLog2(x \div 2)

\* The float32 pattern struct.pack('<f', x) stores for a float64 x that is a
\* small non-negative integer (exactly representable): sign 0, biased exponent,
\* 23-bit mantissa.
F32FromValue(x) ==
    IF x = 0 THEN 0
    ELSE LET k == FloorLog2(x)
         IN  (127 + k) * Pow2(23) + (x - Pow2(k)) * Pow2(23 - k)

\* The float64 value of a float32 pattern (the conversion cKDTree makes of its
\* data), for the patterns of small non-negative integers.
F32ToValue(bits) ==
    IF bits = 0 THEN 0
    ELSE LET e == bits \div Pow2(23)
             m == bits % Pow2(23)
         IN  ((Pow2(23) + m) * Pow2(e - 127)) \div Pow2(23)

\* points of 3-space with small integer coordinates
PointA == <<0, 0, 0>>
PointB == <<2, 0, 0>>
PointM == <<1, 0, 0>>
PointC == <<3, 0, 0>>

\* The labelled vertices input meshes are made of: two vertices at PointA with
\* different labels, one at PointB.
OrigPool ==
    { [p |-> PointA, tid |-> 1], [p |-> PointA, tid |-> 2], [p |-> PointB, tid |-> 3] }

\* The positions the simplifier may put a vertex at: an original position, the
\* midpoint of PointA and PointB, a point that is nearest to PointB.
NewPool == {PointA, PointM, PointC}

ToF32(p) == <<F32FromValue(p[1]), F32FromValue(p[2]), F32FromValue(p[3])>>

\* a valid input mesh: the vertices vl and nf faces over them
DsMesh(vl, nf) ==
    [vertices |-> [i \in 1..Len(vl) |-> ToF32(vl[i].p)],
     tissue_ids |-> [i \in 1..Len(vl) |-> vl[i].tid],
     faces |-> [k \in 1..nf |-> <<0, Len(vl) - 1, (k - 1) % Len(vl)>>]]

DsMeshes ==
    { DsMesh(vl, nf) : vl \in SeqsUpTo(OrigPool, 1, MaxOrig), nf \in 0..MaxOrigFaces }

\* input files the decoder does not accept: a wrong first line, an unsupported
\* format, no tissue_id, a quadrilateral, a header that never ends
DsBadInputs ==
    { [magic |-> "plx", fmt |-> "ble", tid |-> TRUE, endh |-> TRUE, nv |-> 1,
       arities |-> <<3>>],
      [magic |-> "ply", fmt |-> "ascii", tid |-> TRUE, endh |-> TRUE, nv |-> 1,
       arities |-> <<3>>],
      [magic |-> "ply", fmt |-> "ble", tid |-> FALSE, endh |-> TRUE, nv |-> 1,
       arities |-> <<3>>],
      [magic |-> "ply", fmt |-> "ble", tid |-> TRUE, endh |-> TRUE, nv |-> 1,
       arities |-> <<4>>],
      [magic |-> "ply", fmt |-> "ble", tid |-> TRUE, endh |-> FALSE, nv |-> 1,
       arities |-> <<3>>] }

DsInputs ==
    { [kind |-> "mesh", mesh |-> m, env |-> NoEnv] : m \in DsMeshes }
    \cup { [kind |-> "env", mesh |-> NoMesh, env |-> g] : g \in DsBadInputs }

\* the bytes of the file at input_file
InputBytes(g) ==
    IF g.kind = "mesh"
    THEN write_ply_with_tissue_id(g.mesh.vertices, g.mesh.faces, g.mesh.tissue_ids).file
    ELSE EnvFile(g.env)

\* factor=2 in the signature of downsample_ply and at its call
DefaultFactor == 2

Factors == {1, DefaultFactor}

NoFile == [exists |-> FALSE, data |-> <<>>]

\* what output_file may hold before the run: nothing, or an older file
OldOutputs == {NoFile, [exists |-> TRUE, data |-> <<7>>]}

\* What mesh_simplifier.getMesh() may return for an input of nf faces: up to
\* MaxNew vertices anywhere in NewPool, at most nf triangles over them, and a
\* third value, which holds 9 for every vertex (no input vertex has label 9).
SimplifierResults(nf) ==
    UNION { { [new_vertices |-> nvs,
               new_faces |-> [k \in 1..c |-> <<(k - 1) % Len(nvs), Len(nvs) - 1, 0>>],
               extra |-> [i \in 1..Len(nvs) |-> 9]]
              : c \in 0..(IF Len(nvs) = 0 THEN 0 ELSE nf) }
            : nvs \in SeqsUpTo(NewPool, 0, MaxNew) }

\* Dist2 that leaves the first coordinate out
Dist2_withoutX(p, q) ==
    (p[2] - q[2]) * (p[2] - q[2]) + (p[3] - q[3]) * (p[3] - q[3])

\* squared Euclidean distance
Dist2(p, q) ==
    (p[1] - q[1]) * (p[1] - q[1]) + (p[2] - q[2]) * (p[2] - q[2])
        + (p[3] - q[3]) * (p[3] - q[3])

\* NearestCandidates that takes any original vertex for the nearest
NearestCandidates_any(q, pts) ==
    IF pts = <<>> THEN {0} ELSE 0..(Len(pts) - 1)

\* The indices tree.query(q) may return for one query point: the (0-based)
\* index of an original vertex at minimal distance, any of them when several
\* are equally near; len(data) when the tree is empty.
NearestCandidates(q, pts) ==
    IF pts = <<>> THEN {0}
    ELSE { i \in 0..(Len(pts) - 1) :
             \A j \in 0..(Len(pts) - 1) : Dist2(q, pts[i + 1]) <= Dist2(q, pts[j + 1]) }

\* TransferLabels that keeps the third value of getMesh() as the labels
TransferLabels_fromSimplifier(tissue_ids, indices, extra) == extra

\* new_tissue_ids = tissue_ids[indices]; the third value of getMesh() is not
\* read
TransferLabels(tissue_ids, indices, extra) ==
    [i \in 1..Len(indices) |-> tissue_ids[indices[i] + 1]]

\* WriteArgs that passes the labels of the input mesh
WriteArgs_inputLabels(d) ==
    [vertices |-> [i \in 1..Len(d.new_vertices) |-> ToF32(d.new_vertices[i])],
     faces |-> d.new_faces, tissue_ids |-> d.tissue_ids]

\* the mesh of write_ply_with_tissue_id(output_file, new_vertices, new_faces,
\* new_tissue_ids); struct.pack('<f', ...) rounds the float64 coordinates
WriteArgs(d) ==
    [vertices |-> [i \in 1..Len(d.new_vertices) |-> ToF32(d.new_vertices[i])],
     faces |-> d.new_faces, tissue_ids |-> d.new_tissue_ids]

DsLocals ==
    [factor |-> 0, vertices |-> <<>>, faces |-> <<>>, tissue_ids |-> <<>>,
     target_faces |-> 0, new_vertices |-> <<>>, new_faces |-> <<>>, extra |-> <<>>,
     indices |-> <<>>, new_tissue_ids |-> <<>>, handed |-> NoMesh, err |-> ""]

DsInit ==
    /\ in_given = [kind |-> "none", mesh |-> NoMesh, env |-> NoEnv]
    /\ out_file \in OldOutputs
    /\ ds = DsLocals
    /\ ds_pc = "idle"

\* downsample_ply(input_file, output_file, factor) is called
DsCall ==
    /\ ds_pc = "idle"
    /\ \E g \in DsInputs : in_given' = g
    /\ \E f \in Factors : ds' = [ds EXCEPT !.factor = f]
    /\ ds_pc' = "read"
    /\ UNCHANGED <<out_file, codecVars, tblVars, cvVars>>

\* DsRead that opens output_file for writing before it decodes input_file
DsRead_openingOutput ==
    /\ ds_pc = "read"
    /\ LET r == read_ply_with_tissue_id(InputBytes(in_given))
       IN  IF r.status = "ok"
           THEN /\ ds' = [ds EXCEPT !.vertices = r.vertices, !.faces = r.faces,
                                    !.tissue_ids = r.tissue_ids]
                /\ ds_pc' = "simplify"
           ELSE /\ ds' = [ds EXCEPT !.err = r.err]
                /\ ds_pc' = IF r.status = "hang" THEN "hung" ELSE "failed"
    /\ out_file' = [exists |-> TRUE, data |-> <<>>]
    /\ UNCHANGED <<in_given, codecVars, tblVars, cvVars>>

\* vertices, faces, tissue_ids = read_ply_with_tissue_id(input_file)
DsRead ==
    /\ ds_pc = "read"
    /\ LET r == read_ply_with_tissue_id(InputBytes(in_given))
       IN  IF r.status = "ok"
           THEN /\ ds' = [ds EXCEPT !.vertices = r.vertices, !.faces = r.faces,
                                    !.tissue_ids = r.tissue_ids]
                /\ ds_pc' = "simplify"
           ELSE /\ ds' = [ds EXCEPT !.err = r.err]
                /\ ds_pc' = IF r.status = "hang" THEN "hung" ELSE "failed"
    /\ UNCHANGED <<in_given, out_file, codecVars, tblVars, cvVars>>

\* target_faces = len(faces) // (factor ** 2), then setMesh, simplify_mesh and
\* getMesh of the external simplifier
DsSimplify ==
    /\ ds_pc = "simplify"
    /\ \E r \in SimplifierResults(Len(ds.faces)) :
          ds' = [ds EXCEPT !.target_faces = Len(ds.faces) \div (ds.factor * ds.factor),
                           !.new_vertices = r.new_vertices,
                           !.new_faces = r.new_faces,
                           !.extra = r.extra]
    /\ ds_pc' = "transfer"
    /\ UNCHANGED <<in_given, out_file, codecVars, tblVars, cvVars>>

\* setMesh refuses the faces array of a mesh without faces, which
\* read_ply_with_tissue_id returns with one dimension
DsSimplifyRefuses ==
    /\ ds_pc = "simplify"
    /\ ds.faces = <<>>
    /\ ds' = [ds EXCEPT !.err = "ValueError: setMesh"]
    /\ ds_pc' = "failed"
    /\ UNCHANGED <<in_given, out_file, codecVars, tblVars, cvVars>>

\* tree = cKDTree(vertices); distances, indices = tree.query(new_vertices);
\* new_tissue_ids = tissue_ids[indices]
DsTransfer ==
    /\ ds_pc = "transfer"
    /\ LET pts == [i \in 1..Len(ds.vertices) |->
                     <<F32ToValue(ds.vertices[i][1]), F32ToValue(ds.vertices[i][2]),
                       F32ToValue(ds.vertices[i][3])>>]
       IN  \E idx \in [1..Len(ds.new_vertices) -> 0..(IF pts = <<>> THEN 0 ELSE Len(pts) - 1)] :
              /\ \A i \in 1..Len(idx) : idx[i] \in NearestCandidates(ds.new_vertices[i], pts)
              /\ IF \E i \in 1..Len(idx) : idx[i] >= Len(ds.tissue_ids)
                 THEN /\ ds' = [ds EXCEPT !.indices = idx, !.err = "IndexError"]
                      /\ ds_pc' = "failed"
                 ELSE /\ ds' = [ds EXCEPT !.indices = idx,
                                   !.new_tissue_ids =
                                       TransferLabels(ds.tissue_ids, idx, ds.extra)]
                      /\ ds_pc' = "report"
    /\ UNCHANGED <<in_given, out_file, codecVars, tblVars, cvVars>>

\* vertex_reduction and face_reduction divide by len(vertices) and len(faces),
\* then write_ply_with_tissue_id(output_file, ...) opens and writes the output
DsWrite ==
    /\ ds_pc = "report"
    /\ IF Len(ds.vertices) = 0 \/ Len(ds.faces) = 0
       THEN /\ ds' = [ds EXCEPT !.err = "ZeroDivisionError"]
            /\ ds_pc' = "failed"
            /\ UNCHANGED out_file
       ELSE LET a == WriteArgs(ds)
                w == write_ply_with_tissue_id(a.vertices, a.faces, a.tissue_ids)
            IN  /\ ds' = [ds EXCEPT !.handed = a, !.err = w.err]
                /\ out_file' = [exists |-> TRUE, data |-> w.file]
                /\ ds_pc' = IF w.status = "ok" THEN "done" ELSE "failed"
    /\ UNCHANGED <<in_given, codecVars, tblVars, cvVars>>

NextDownsample ==
    DsCall \/ DsRead \/ DsSimplify \/ DsSimplifyRefuses \/ DsTransfer \/ DsWrite

----------------------------------------------------------------------------
(* Claims about downsample_ply.                                            *)

Range(f) == { f[i] : i \in 1..Len(f) }

\* the position of original vertex u (1-based) as cKDTree holds it
OrigPoint(u) ==
    <<F32ToValue(ds.vertices[u][1]), F32ToValue(ds.vertices[u][2]),
      F32ToValue(ds.vertices[u][3])>>

\* the labels have been derived
Labelled == ds_pc \in {"report", "done"}

\* C5: the set of distinct labels downsample_ply writes is a subset of the set
\* of distinct labels of the input mesh, for every input mesh, every factor
\* and every result of the simplifier.
C5_LabelSubset ==
    (ds_pc = "done" /\ in_given.kind = "mesh")
        => LET written == read_ply_with_tissue_id(out_file.data)
           IN  /\ written.status = "ok"
               /\ Range(written.tissue_ids) \subseteq Range(in_given.mesh.tissue_ids)

\* C5 happens: an input with labels 1 and 3 has been downsampled to a mesh whose
\* only label is 3.
C5_Witness ==
    /\ ds_pc = "done" /\ in_given.kind = "mesh"
    /\ in_given.mesh.tissue_ids = <<1, 3>>
    /\ Range(read_ply_with_tissue_id(out_file.data).tissue_ids) = {3}

\* C6: every vertex the simplifier returned gets the label of an original vertex
\* than which no original vertex is strictly nearer; the third value the
\* simplifier returned is not what it gets.
C6_NearestLabel ==
    Labelled =>
        /\ Len(ds.new_tissue_ids) = Len(ds.new_vertices)
        /\ \A i \in 1..Len(ds.new_vertices) :
              \E u \in 1..Len(ds.vertices) :
                 /\ ds.new_tissue_ids[i] = ds.tissue_ids[u]
                 /\ \A w \in 1..Len(ds.vertices) :
                       Dist2(ds.new_vertices[i], OrigPoint(u))
                           <= Dist2(ds.new_vertices[i], OrigPoint(w))
        /\ \A i \in 1..Len(ds.new_vertices) : ds.new_tissue_ids[i] # ds.extra[i]

\* C6 happens: a new vertex at PointC, with the originals at PointA and PointB,
\* has the label of the one at PointB.
C6_Witness ==
    /\ Labelled
    /\ ds.tissue_ids = <<1, 3>>
    /\ ds.new_vertices = <<PointC>>
    /\ ds.new_tissue_ids = <<3>>

\* C7 as claimed: a new vertex with exactly the coordinates of an original
\* vertex u has the label of u, for every such u, also when several original
\* vertices share the coordinates.
C7_UnmovedLabelOfEvery ==
    Labelled =>
        \A i \in 1..Len(ds.new_vertices) : \A u \in 1..Len(ds.vertices) :
            OrigPoint(u) = ds.new_vertices[i]
                => ds.new_tissue_ids[i] = ds.tissue_ids[u]

\* C7 as amended: a new vertex with exactly the coordinates of an original
\* vertex has the label of one of the original vertices at those coordinates
\* (so the label of u whenever all of them carry the same label).
C7_UnmovedLabelOfSome ==
    Labelled =>
        \A i \in 1..Len(ds.new_vertices) :
            (\E u \in 1..Len(ds.vertices) : OrigPoint(u) = ds.new_vertices[i])
                => \E u \in 1..Len(ds.vertices) :
                      /\ OrigPoint(u) = ds.new_vertices[i]
                      /\ ds.new_tissue_ids[i] = ds.tissue_ids[u]

\* C7 happens: a new vertex lies exactly on an original vertex while another
\* original vertex, with another label, lies elsewhere.
C7_Witness ==
    /\ Labelled
    /\ ds.tissue_ids = <<3, 1>>
    /\ ds.new_vertices = <<PointA>>
    /\ OrigPoint(2) = PointA /\ OrigPoint(1) = PointB
    /\ ds.new_tissue_ids = <<1>>

\* C8: the mesh handed to write_ply_with_tissue_id has one label per vertex,
\* every face is a triple of indices in [0, len(new_vertices)), and the counts
\* in the header written are the counts of that mesh.
C8_OutputMesh ==
    ds_pc = "done" =>
        /\ Len(ds.handed.tissue_ids) = Len(ds.handed.vertices)
        /\ Len(ds.handed.vertices) = Len(ds.new_vertices)
        /\ ds.handed.tissue_ids = ds.new_tissue_ids
        /\ \A k \in 1..Len(ds.handed.faces) :
              /\ Len(ds.handed.faces[k]) = 3
              /\ \A j \in 1..3 : /\ ds.handed.faces[k][j] >= 0
                                 /\ ds.handed.faces[k][j] < Len(ds.handed.vertices)
        /\ StartsWith(out_file.data,
                      HeaderBytes(Len(ds.new_vertices), Len(ds.new_faces)))
        /\ LET written == read_ply_with_tissue_id(out_file.data)
           IN  /\ written.status = "ok"
               /\ Len(written.vertices) = Len(ds.new_vertices)
               /\ Len(written.tissue_ids) = Len(ds.new_vertices)
               /\ Len(written.faces) = Len(ds.new_faces)

\* C8 happens: an input of two vertices has been written as a mesh of one
\* vertex and one face.
C8_Witness ==
    /\ ds_pc = "done"
    /\ Len(ds.vertices) = 2
    /\ Len(ds.new_vertices) = 1 /\ Len(ds.new_faces) = 1
    /\ out_file.exists

\* the file at input_file is one read_ply_with_tissue_id refuses: a wrong first
\* line, an unsupported format, no tissue_id property, or a face record that
\* is not a triangle
ReadFails ==
    /\ in_given.kind = "env"
    /\ \/ BadHeader(in_given.env)
       \/ GoodHeader(in_given.env) /\ FirstNonTriangle(in_given.env.arities) # 0

\* C11: downsample_ply writes to the output file only in its last step, after
\* decoding, simplification and label transfer have completed; in a run whose
\* input file the decoder refuses (wrong first line, unsupported format, no
\* tissue_id, a non-triangular face) the decoding step ends the run with an
\* error and no step creates or changes the output file; and the decoding
\* step changes no file, neither the input nor the output.
C11_OutputUntouched ==
    [][ /\ (ds_pc # "report" => out_file' = out_file)
        /\ (ds_pc = "read" => in_given' = in_given /\ out_file' = out_file)
        /\ (ReadFails => out_file' = out_file)
        /\ ((ReadFails /\ ds_pc = "read") => ds_pc' = "failed") ]_vars

\* C11 happens: a run on a refused input file has failed, and the older file
\* at the output path is still there as it was.
C11_Witness ==
    /\ ds_pc = "failed"
    /\ ReadFails
    /\ ds.handed = NoMesh
    /\ out_file = [exists |-> TRUE, data |-> <<7>>]

----------------------------------------------------------------------------
(* generate-tissue-properties.py                                           *)
(* Text cells are ASCII strings (sequences of bytes), '' for an empty cell.*)
(* A number cell is [t |-> "num", n |-> value]; an empty one has t "empty".*)
(* An output value is [t, n, e]: None (t = "none"), or the number n, or,   *)
(* with t = "scaled", the product n * 10^e.                                *)

EmptyCell == [t |-> "empty", n |-> 0]
NumCell(v) == [t |-> "num", n |-> v]

None == [t |-> "none", n |-> 0, e |-> 0]
Num(v) == [t |-> "num", n |-> v, e |-> 0]
Scaled(v, ex) == [t |-> "scaled", n |-> v, e |-> ex]

\* the keys of COLS that hold numbers
PropertyCols ==
    {"density_av", "heat_capacity_av", "thermal_conductivity_av",
     "heat_transfer_rate_av", "heat_generation_rate_av",
     "cole_ef", "cole_delta1", "cole_tau1", "cole_alpha1",
     "cole_delta2", "cole_tau2", "cole_alpha2", "cole_sig",
     "cole_delta3", "cole_tau3", "cole_alpha3",
     "cole_delta4", "cole_tau4", "cole_alpha4",
     "lf_conductivity_av", "sound_speed_av", "nonlinearity_av",
     "attenuation_alpha0", "attenuation_b",
     "t1_15T", "t2_15T", "t1_3T", "t2_3T", "water_content"}

\* get_val with the test for the empty cell left out
get_val_raw(row, col_key) == Num(row.cells[col_key].n)

\* get_val(col_key): `val if val not in ('', None) else None`; the number 0 is
\* not '' and is returned
get_val(row, col_key) ==
    IF row.cells[col_key].t = "empty" THEN None ELSE Num(row.cells[col_key].n)

\* `x if x is not None else d`
OrDefault(x, d) == IF x # None THEN x ELSE Num(d)

\* `get_val(tau) * scale if get_val(tau) else 0`: None and the number 0 are falsy
TauValue(row, col_key, ex) ==
    LET x == get_val(row, col_key)
    IN  IF x # None /\ x.n # 0 THEN Scaled(x.n, ex) ELSE Num(0)

\* one term of the Cole-Cole model, appended when its delta cell is not empty
ColeTerm(row, k, ex) ==
    LET d == <<"cole_delta1", "cole_delta2", "cole_delta3", "cole_delta4">>[k]
        t == <<"cole_tau1", "cole_tau2", "cole_tau3", "cole_tau4">>[k]
        a == <<"cole_alpha1", "cole_alpha2", "cole_alpha3", "cole_alpha4">>[k]
    IN  IF get_val(row, d) # None
        THEN <<[delta |-> get_val(row, d), tau |-> TauValue(row, t, ex),
                alpha |-> OrDefault(get_val(row, a), 0)]>>
        ELSE <<>>

\* cole_cole: None when the ef cell is empty
ColeCole(row) ==
    IF get_val(row, "cole_ef") # None
    THEN [present |-> TRUE, ef |-> get_val(row, "cole_ef"),
          terms |-> ColeTerm(row, 1, -12) \o ColeTerm(row, 2, -9)
                      \o ColeTerm(row, 3, -6) \o ColeTerm(row, 4, -3),
          sigmaIonic |-> OrDefault(get_val(row, "cole_sig"), 0)]
    ELSE [present |-> FALSE, ef |-> None, terms |-> <<>>, sigmaIonic |-> None]

\* the output key of each relaxation column: 3T becomes 30T
RelaxationKey ==
    [c \in {"t1_15T", "t2_15T", "t1_3T", "t2_3T"} |->
        IF c = "t1_3T" THEN "t1_30T" ELSE IF c = "t2_3T" THEN "t2_30T" ELSE c]

\* relaxation_times holds a key for each relaxation cell that is not empty;
\* `relaxation_times if relaxation_times else None`
Relaxation(row) ==
    LET filled == { c \in DOMAIN RelaxationKey : get_val(row, c) # None }
        times  == [k \in { RelaxationKey[c] : c \in filled } |->
                     get_val(row, CHOOSE c \in filled : RelaxationKey[c] = k)]
    IN  [present |-> filled # {}, times |-> times]

\* str.strip(chars): the characters of chars are dropped at both ends
RECURSIVE LStripChars(_, _)
LStripChars(s, chars) ==
    IF s # <<>> /\ Head(s) \in chars THEN LStripChars(Tail(s), chars) ELSE s

RECURSIVE RStripChars(_, _)
RStripChars(s, chars) ==
    IF s # <<>> /\ s[Len(s)] \in chars
    THEN RStripChars(SubSeq(s, 1, Len(s) - 1), chars) ELSE s

StripChars(s, chars) == RStripChars(LStripChars(s, chars), chars)

\* str.split(sep) for a one-character separator: '' gives ['']
RECURSIVE SplitOnFrom(_, _, _, _)
SplitOnFrom(s, sep, cur, acc) ==
    IF s = <<>> THEN Append(acc, cur)
    ELSE IF Head(s) = sep THEN SplitOnFrom(Tail(s), sep, <<>>, Append(acc, cur))
    ELSE SplitOnFrom(Tail(s), sep, Append(cur, Head(s)), acc)

SplitOn(s, sep) == SplitOnFrom(s, sep, <<>>, <<>>)

RECURSIVE StrippedNonEmpty(_)
StrippedNonEmpty(parts) ==
    IF parts = <<>> THEN <<>>
    ELSE (IF Strip(Head(parts)) # <<>> THEN <<Strip(Head(parts))>> ELSE <<>>)
         \o StrippedNonEmpty(Tail(parts))

\* alt_names: nothing for an empty cell; else the cell without the double quotes
\* and the whitespace at its ends, split at '@', each part stripped, the empty
\* parts dropped
alt_names(alt_names_raw) ==
    IF alt_names_raw = <<>> THEN <<>>
    ELSE StrippedNonEmpty(SplitOn(Strip(StripChars(alt_names_raw, {34})), 64))

\* `if not tissue_name or not str(tissue_name).strip(): continue`
RowSkipped(row) == row.name = <<>> \/ Strip(row.name) = <<>>

\* The elemental composition sheet: a row for 'a' with hydrogen 10 and carbon
\* empty, and a row without a name.
ElementalSheet ==
    << [name |-> <<97>>, hydrogen |-> NumCell(10), carbon |-> EmptyCell],
       [name |-> <<>>, hydrogen |-> NumCell(1), carbon |-> NumCell(1)] >>

\* get_elem_val
get_elem_val(cell) == IF cell.t = "empty" THEN None ELSE Num(cell.n)

\* the loop that builds elemental_map (two of its seventeen elements)
RECURSIVE BuildElemental(_, _)
BuildElemental(rows, map) ==
    IF rows = <<>> THEN map
    ELSE LET r == Head(rows)
             key == Strip(r.name)
         IN  IF r.name = <<>> \/ key = <<>>
             THEN BuildElemental(Tail(rows), map)
             ELSE BuildElemental(Tail(rows),
                     [k \in DOMAIN map \cup {key} |->
                         IF k = key
                         THEN [hydrogen |-> get_elem_val(r.hydrogen),
                               carbon |-> get_elem_val(r.carbon)]
                         ELSE map[k]])

elemental_map == BuildElemental(ElementalSheet, <<>>)

\* elemental_map.get(tissue_name, None)
Elemental(tissue_name) ==
    IF tissue_name \in DOMAIN elemental_map
    THEN [present |-> TRUE, data |-> elemental_map[tissue_name]]
    ELSE [present |-> FALSE, data |-> [hydrogen |-> None, carbon |-> None]]

\* tissue_data of a row that is not skipped
tissue_data(row) ==
    [name |-> Strip(row.name),
     alternativeNames |-> alt_names(row.alt),
     properties |->
        [thermal |->
            [density |-> get_val(row, "density_av"),
             heatCapacity |-> get_val(row, "heat_capacity_av"),
             thermalConductivity |-> get_val(row, "thermal_conductivity_av"),
             heatTransferRate |-> get_val(row, "heat_transfer_rate_av"),
             heatGenerationRate |-> get_val(row, "heat_generation_rate_av")],
         acoustic |->
            [speedOfSound |-> get_val(row, "sound_speed_av"),
             nonlinearity |-> get_val(row, "nonlinearity_av"),
             attenuation |->
                [alpha0 |-> OrDefault(get_val(row, "attenuation_alpha0"), 0),
                 b |-> OrDefault(get_val(row, "attenuation_b"), 1)]],
         dielectric |->
            [coleCole |-> ColeCole(row),
             lfConductivity |-> get_val(row, "lf_conductivity_av")],
         relaxation |-> Relaxation(row),
         waterContent |-> get_val(row, "water_content"),
         elemental |-> Elemental(Strip(row.name))]]

\* d[key] = value
Store(d, key, value) ==
    [k \in DOMAIN d \cup {key} |-> IF k = key THEN value ELSE d[k]]

RECURSIVE StoreAll(_, _, _)
StoreAll(d, keys, value) ==
    IF keys = <<>> THEN d
    ELSE StoreAll(Store(d, Head(keys), value), Tail(keys), value)

\* StoreRow that keeps the record a key already has
StoreRow_keepFirst(d, row) ==
    LET new == StoreAll(<<>>, <<Strip(row.name)>> \o alt_names(row.alt),
                        tissue_data(row))
    IN  [k \in DOMAIN d \cup DOMAIN new |-> IF k \in DOMAIN d THEN d[k] ELSE new[k]]

\* tissue_properties[tissue_name] = tissue_data, then the same for every
\* alternative name
StoreRow(d, row) ==
    StoreAll(d, <<Strip(row.name)>> \o alt_names(row.alt), tissue_data(row))

\* one pass of the loop over the rows of the main sheet
ProcessRow(d, row) == IF RowSkipped(row) THEN d ELSE StoreRow(d, row)

\* a row whose cells of S hold the number v and whose other cells are empty
MakeRow(name, alt, S, v) ==
    [name |-> name, alt |-> alt,
     cells |-> [c \in PropertyCols |-> IF c \in S THEN NumCell(v) ELSE EmptyCell]]

\* name cells: '', ' ', 'a', 'b', ' a'
NameCells == {<<>>, <<32>>, <<97>>, <<98>>, <<32, 97>>}

\* alias cells: '', 'b', 'a@c', '"b@ @c "'
AliasCells == {<<>>, <<98>>, <<97, 64, 99>>, <<34, 98, 64, 32, 64, 99, 32, 34>>}

\* which cells of a row are filled, and with what
CellPatterns ==
    { [S |-> {}, v |-> 0],
      [S |-> PropertyCols, v |-> 0],
      [S |-> PropertyCols, v |-> 5],
      [S |-> {"cole_ef", "cole_delta1", "cole_delta3"}, v |-> 5],
      [S |-> PropertyCols \ {"attenuation_b", "t1_3T", "density_av"}, v |-> 5],
      [S |-> PropertyCols \ {"attenuation_alpha0", "cole_sig", "cole_tau2"}, v |-> 5],
      [S |-> {"attenuation_b", "attenuation_alpha0", "t2_15T"}, v |-> 0] }

\* The rows of the main sheet: every name and alias cell with all cells filled,
\* and every cell pattern under the name 'c'.
Rows ==
    { MakeRow(n, a, PropertyCols, 5) : n \in NameCells, a \in AliasCells }
    \cup { MakeRow(<<99>>, <<>>, p.S, p.v) : p \in CellPatterns }

TblInit ==
    /\ tbl_rows = <<>>
    /\ tissue_properties = <<>>
    /\ tbl_json = <<>>
    /\ tbl_pc = "rows"

\* the body of `for row_idx in range(3, ws.nrows)` for the next row of the sheet
TblProcessRow ==
    /\ tbl_pc = "rows"
    /\ Len(tbl_rows) < MaxRows
    /\ \E row \in Rows :
          /\ tbl_rows' = Append(tbl_rows, row)
          /\ tissue_properties' = ProcessRow(tissue_properties, row)
    /\ UNCHANGED <<tbl_json, tbl_pc, codecVars, dsVars, cvVars>>

\* the sheet has no more rows: json.dump(tissue_properties, f, indent=2)
TblSave ==
    /\ tbl_pc = "rows"
    /\ tbl_json' = tissue_properties
    /\ tbl_pc' = "saved"
    /\ UNCHANGED <<tbl_rows, tissue_properties, codecVars, dsVars, cvVars>>

NextTable == TblProcessRow \/ TblSave

----------------------------------------------------------------------------
(* Claims about the property table builder.                                *)

\* the keys a row is stored under: its name and its alternative names
RowKeys(row) == {Strip(row.name)} \cup Range(alt_names(row.alt))

\* C9 as claimed: after all rows are processed, every row with a non-empty name
\* is in the output under its name and under every non-empty alias, and each of
\* these keys maps to the record built from that row, also when a name or alias
\* of one row is a name or alias of another.
C9_EveryRowUnderEveryKey ==
    tbl_pc = "saved" =>
        \A i \in 1..Len(tbl_rows) :
            ~RowSkipped(tbl_rows[i]) =>
                \A key \in RowKeys(tbl_rows[i]) :
                    /\ key \in DOMAIN tbl_json
                    /\ tbl_json[key] = tissue_data(tbl_rows[i])

\* a later row than row i is stored under key
Redeclared(i, key) ==
    \E j \in (i + 1)..Len(tbl_rows) :
        ~RowSkipped(tbl_rows[j]) /\ key \in RowKeys(tbl_rows[j])

\* C9 as amended: after all rows are processed, every row whose name is not
\* blank is in the output under its name and under every non-empty alias; a key
\* maps to the record built from the last row that has it as name or alias, so
\* all keys of a row map to the identical record of that row unless a later row
\* has the key too.  The output has no other keys.
C9_LastRowUnderEveryKey ==
    tbl_pc = "saved" =>
        /\ \A i \in 1..Len(tbl_rows) :
              ~RowSkipped(tbl_rows[i]) =>
                  \A key \in RowKeys(tbl_rows[i]) :
                      /\ key \in DOMAIN tbl_json
                      /\ ~Redeclared(i, key)
                            => /\ tbl_json[key] = tissue_data(tbl_rows[i])
                               /\ tbl_json[key].name = Strip(tbl_rows[i].name)
        /\ \A key \in DOMAIN tbl_json :
              \E i \in 1..Len(tbl_rows) :
                  ~RowSkipped(tbl_rows[i]) /\ key \in RowKeys(tbl_rows[i])

\* C9 happens: row 'a' with alias 'b' and then row 'b' with the alias cell
\* '"b@ @c "' have been processed and saved; 'a' holds the first row's record,
\* 'b' and 'c' the second row's.
C9_Witness ==
    /\ tbl_pc = "saved"
    /\ Len(tbl_rows) = 2
    /\ tbl_rows[1].name = <<97>> /\ tbl_rows[1].alt = <<98>>
    /\ tbl_rows[2].name = <<98>>
    /\ tbl_rows[2].alt = <<34, 98, 64, 32, 64, 99, 32, 34>>
    /\ DOMAIN tbl_json = {<<97>>, <<98>>, <<99>>}
    /\ tbl_json[<<97>>].alternativeNames = <<<<98>>>>
    /\ tbl_json[<<98>>].name = <<98>>
    /\ tbl_json[<<99>>] = tbl_json[<<98>>]
    /\ tbl_json[<<99>>].alternativeNames = <<<<98>>, <<99>>>>

\* The output value that column c of the row feeds in record rec; None when
\* the value is null, when its key or term is left out, or when the group that
\* would hold it is null.
TermOf(rec, row, k) ==
    LET d == <<"cole_delta1", "cole_delta2", "cole_delta3", "cole_delta4">>
        before == Cardinality({ h \in 1..(k - 1) : row.cells[d[h]].t # "empty" })
    IN  IF rec.properties.dielectric.coleCole.present /\ row.cells[d[k]].t # "empty"
        THEN <<rec.properties.dielectric.coleCole.terms[before + 1]>>
        ELSE <<>>

OutputOf(rec, row, c) ==
    LET pr == rec.properties
        cc == pr.dielectric.coleCole
        TermField(k, fld) ==
            IF TermOf(rec, row, k) = <<>> THEN None
            ELSE IF fld = "delta" THEN TermOf(rec, row, k)[1].delta
            ELSE IF fld = "tau" THEN TermOf(rec, row, k)[1].tau
            ELSE TermOf(rec, row, k)[1].alpha
        Relax(k) == IF pr.relaxation.present /\ k \in DOMAIN pr.relaxation.times
                    THEN pr.relaxation.times[k] ELSE None
    IN  CASE c = "density_av" -> pr.thermal.density
          [] c = "heat_capacity_av" -> pr.thermal.heatCapacity
          [] c = "thermal_conductivity_av" -> pr.thermal.thermalConductivity
          [] c = "heat_transfer_rate_av" -> pr.thermal.heatTransferRate
          [] c = "heat_generation_rate_av" -> pr.thermal.heatGenerationRate
          [] c = "sound_speed_av" -> pr.acoustic.speedOfSound
          [] c = "nonlinearity_av" -> pr.acoustic.nonlinearity
          [] c = "attenuation_alpha0" -> pr.acoustic.attenuation.alpha0
          [] c = "attenuation_b" -> pr.acoustic.attenuation.b
          [] c = "lf_conductivity_av" -> pr.dielectric.lfConductivity
          [] c = "water_content" -> pr.waterContent
          [] c = "cole_ef" -> IF cc.present THEN cc.ef ELSE None
          [] c = "cole_sig" -> IF cc.present THEN cc.sigmaIonic ELSE None
          [] c = "cole_delta1" -> TermField(1, "delta")
          [] c = "cole_tau1" -> TermField(1, "tau")
          [] c = "cole_alpha1" -> TermField(1, "alpha")
          [] c = "cole_delta2" -> TermField(2, "delta")
          [] c = "cole_tau2" -> TermField(2, "tau")
          [] c = "cole_alpha2" -> TermField(2, "alpha")
          [] c = "cole_delta3" -> TermField(3, "delta")
          [] c = "cole_tau3" -> TermField(3, "tau")
          [] c = "cole_alpha3" -> TermField(3, "alpha")
          [] c = "cole_delta4" -> TermField(4, "delta")
          [] c = "cole_tau4" -> TermField(4, "tau")
          [] c = "cole_alpha4" -> TermField(4, "alpha")
          [] c = "t1_15T" -> Relax("t1_15T")
          [] c = "t2_15T" -> Relax("t2_15T")
          [] c = "t1_3T" -> Relax("t1_30T")
          [] c = "t2_3T" -> Relax("t2_30T")

\* the row the loop has just processed was not skipped
RowProcessed ==
    /\ tbl_pc = "rows" /\ tbl_rows # <<>>
    /\ ~RowSkipped(tbl_rows[Len(tbl_rows)])

LastRow == tbl_rows[Len(tbl_rows)]

LastRecord == tissue_properties[Strip(LastRow.name)]

\* the attenuation cells: empty gives the default, anything else is passed through
AttenuationDefaults ==
    /\ LastRecord.properties.acoustic.attenuation.b =
          (IF LastRow.cells["attenuation_b"].t = "empty" THEN Num(1)
           ELSE Num(LastRow.cells["attenuation_b"].n))
    /\ LastRecord.properties.acoustic.attenuation.alpha0 =
          (IF LastRow.cells["attenuation_alpha0"].t = "empty" THEN Num(0)
           ELSE Num(LastRow.cells["attenuation_alpha0"].n))

AttenuationCols == {"attenuation_alpha0", "attenuation_b"}

\* the Cole-Cole cells with a default of their own
ColeDefaultCols ==
    {"cole_tau1", "cole_tau2", "cole_tau3", "cole_tau4",
     "cole_alpha1", "cole_alpha2", "cole_alpha3", "cole_alpha4", "cole_sig"}

\* C10 as claimed: for every processed row an empty attenuation-exponent cell
\* gives b = 1, an empty alpha0 cell gives alpha0 = 0, a non-empty one (also 0)
\* is passed through, and every other empty cell becomes null, never zero.
C10_EveryOtherEmptyCellNull ==
    RowProcessed =>
        /\ AttenuationDefaults
        /\ \A c \in PropertyCols \ AttenuationCols :
              LastRow.cells[c].t = "empty" => OutputOf(LastRecord, LastRow, c) = None

\* C10 as amended: the attenuation cells as claimed; an empty cell of any other
\* column becomes null or is left out of the record, except that an empty
\* Cole-Cole tau, alpha or sigma cell gives 0 whenever the term (for sigma: the
\* coleCole record) it belongs to is in the output.
C10_EmptyCellsNullOrDefault ==
    RowProcessed =>
        /\ AttenuationDefaults
        /\ \A c \in PropertyCols \ (AttenuationCols \cup ColeDefaultCols) :
              LastRow.cells[c].t = "empty" => OutputOf(LastRecord, LastRow, c) = None
        /\ \A c \in ColeDefaultCols :
              LastRow.cells[c].t = "empty"
                  => OutputOf(LastRecord, LastRow, c) \in {None, Num(0)}
        /\ (LastRow.cells["cole_ef"].t # "empty" /\ LastRow.cells["cole_sig"].t = "empty")
              => LastRecord.properties.dielectric.coleCole.sigmaIonic = Num(0)
        /\ \A k \in 1..4 :
              TermOf(LastRecord, LastRow, k) # <<>> =>
                  /\ LastRow.cells[<<"cole_tau1", "cole_tau2", "cole_tau3", "cole_tau4">>[k]].t = "empty"
                        => TermOf(LastRecord, LastRow, k)[1].tau = Num(0)
                  /\ LastRow.cells[<<"cole_alpha1", "cole_alpha2", "cole_alpha3", "cole_alpha4">>[k]].t = "empty"
                        => TermOf(LastRecord, LastRow, k)[1].alpha = Num(0)

\* C10 happens: a row whose attenuation-exponent and density cells are empty and
\* whose alpha0 cell holds 5 has been processed.
C10_Witness ==
    /\ RowProcessed
    /\ LastRow.cells["attenuation_b"].t = "empty"
    /\ LastRow.cells["density_av"].t = "empty"
    /\ LastRow.cells["attenuation_alpha0"] = NumCell(5)
    /\ LastRecord.properties.acoustic.attenuation.b = Num(1)
    /\ LastRecord.properties.acoustic.attenuation.alpha0 = Num(5)
    /\ LastRecord.properties.thermal.density = None

----------------------------------------------------------------------------
(* convert-mat-to-vtk.py                                                   *)
(* A label volume is [shape |-> <<d0, d1, d2>>, at |-> a function from the *)
(* index triples <<i, j, k>> to labels].  The .vti file is held by its     *)
(* parts: the extents and the spacing of the XML text, the type of the     *)
(* DataArray and the base64 text in it (a sequence of ASCII codes).        *)

\* value used in the MAT file to encode empty space
BACKGROUND_VALUE == 50

\* value the background voxels are remapped to in the VTI
TRANSPARENT_VALUE == 0

\* the index triples of an array of this shape
Indices(shape) ==
    { <<i, j, k>> : i \in 0..(shape[1] - 1), j \in 0..(shape[2] - 1),
                    k \in 0..(shape[3] - 1) }

\* tissue_data.flatten('F'): column-major order, the first index runs fastest
flatten_F(a) ==
    [f \in 1..(a.shape[1] * a.shape[2] * a.shape[3]) |->
        a.at[<<(f - 1) % a.shape[1],
               ((f - 1) \div a.shape[1]) % a.shape[2],
               (f - 1) \div (a.shape[1] * a.shape[2])>>]]

\* astype to an unsigned integer type of `modulus` values: numpy keeps the low
\* bits
astype(a, modulus) ==
    [shape |-> a.shape, at |-> [x \in Indices(a.shape) |-> a.at[x] % modulus]]

\* tissue_data[background_mask] = TRANSPARENT_VALUE
Remap(a) ==
    [shape |-> a.shape,
     at |-> [x \in Indices(a.shape) |->
                IF a.at[x] = BACKGROUND_VALUE THEN TRANSPARENT_VALUE ELSE a.at[x]]]

\* np.count_nonzero(background_mask)
background_count(a) ==
    Cardinality({ x \in Indices(a.shape) : a.at[x] = BACKGROUND_VALUE })

\* the low k bytes of n, least significant first
RECURSIVE LEBytes(_, _)
LEBytes(n, k) == IF k = 0 THEN <<>> ELSE <<n % 256>> \o LEBytes(n \div 256, k - 1)

\* struct.pack('<Q', n)
PackLE64(n) == LEBytes(n, 8)

\* the character of the base64 alphabet for a 6-bit value
B64Char(v) ==
    IF v < 26 THEN 65 + v
    ELSE IF v < 52 THEN 97 + (v - 26)
    ELSE IF v < 62 THEN 48 + (v - 52)
    ELSE IF v = 62 THEN 43 ELSE 47

\* base64.b64encode: 3 bytes to 4 characters, '=' for padding
RECURSIVE b64encode(_)
b64encode(bs) ==
    IF bs = <<>> THEN <<>>
    ELSE IF Len(bs) = 1
    THEN <<B64Char(bs[1] \div 4), B64Char((bs[1] % 4) * 16), 61, 61>>
    ELSE IF Len(bs) = 2
    THEN <<B64Char(bs[1] \div 4), B64Char((bs[1] % 4) * 16 + bs[2] \div 16),
           B64Char((bs[2] % 16) * 4), 61>>
    ELSE <<B64Char(bs[1] \div 4), B64Char((bs[1] % 4) * 16 + bs[2] \div 16),
           B64Char((bs[2] % 16) * 4 + bs[3] \div 64), B64Char(bs[3] % 64)>>
         \o b64encode(SubSeq(bs, 4, Len(bs)))

\* binary_data = flat_data.astype(np.uint8).tobytes(); the size as UInt64 in
\* front; base64 of the whole
encoded_data(a) ==
    LET binary_data == flatten_F(astype(a, 256))
    IN  b64encode(PackLE64(Len(binary_data)) \o binary_data)

\* the labels of the volumes given to the converter: the background value,
\* labels of one byte, labels of two bytes
LabelPool == {0, 1, 50, 255, 256, 306, 65535}

Shapes ==
    { sh \in (0..MaxVoxels) \X (0..MaxVoxels) \X (0..MaxVoxels) :
        sh[1] * sh[2] * sh[3] <= MaxVoxels }

\* the arrays of unsigned 16-bit labels a .mat file may hold
Volumes ==
    UNION { { [shape |-> sh, at |-> f] : f \in [Indices(sh) -> LabelPool] }
            : sh \in Shapes }

NoVolume == [shape |-> <<0, 0, 0>>, at |-> <<>>]

\* what sio.loadmat may return: a mapping with the key 'tissuedistrib', or one
\* without it
MatFiles ==
    { [kind |-> "mat", has_key |-> TRUE, tissuedistrib |-> a] : a \in Volumes }
    \cup { [kind |-> "mat", has_key |-> FALSE, tissuedistrib |-> NoVolume] }

NoVti ==
    [opened |-> FALSE, whole_extent |-> <<>>, piece_extent |-> <<>>,
     spacing |-> "", type |-> "", encoded |-> <<>>]

CvLocals == [tissue_data |-> NoVolume, background_count |-> 0, err |-> ""]

CvInit ==
    /\ mat_file = [kind |-> "none", has_key |-> FALSE, tissuedistrib |-> NoVolume]
    /\ vti_file = NoVti
    /\ cv = CvLocals
    /\ cv_pc = "idle"

\* convert_mat_to_vti(mat_file_path, output_path) is called
CvCall ==
    /\ cv_pc = "idle"
    /\ \E m \in MatFiles : mat_file' = m
    /\ cv_pc' = "load"
    /\ UNCHANGED <<vti_file, cv, codecVars, dsVars, tblVars>>

\* sio.loadmat, the test for the key, astype(np.uint16), and the report of the
\* range: min() of an array without elements raises ValueError
CvLoad ==
    /\ cv_pc = "load"
    /\ IF ~mat_file.has_key
       THEN /\ cv' = [cv EXCEPT !.err = "KeyError"]
            /\ cv_pc' = "failed"
       ELSE LET a == astype(mat_file.tissuedistrib, 65536)
            IN  IF Indices(a.shape) = {}
                THEN /\ cv' = [cv EXCEPT !.tissue_data = a, !.err = "ValueError"]
                     /\ cv_pc' = "failed"
                ELSE /\ cv' = [cv EXCEPT !.tissue_data = a]
                     /\ cv_pc' = "remap"
    /\ UNCHANGED <<mat_file, vti_file, codecVars, dsVars, tblVars>>

\* the background voxels are remapped to the transparent value
CvRemap ==
    /\ cv_pc = "remap"
    /\ LET n == background_count(cv.tissue_data)
       IN  cv' = [cv EXCEPT !.background_count = n,
                            !.tissue_data = IF n # 0 THEN Remap(cv.tissue_data)
                                            ELSE cv.tissue_data]
    /\ cv_pc' = "write"
    /\ UNCHANGED <<mat_file, vti_file, codecVars, dsVars, tblVars>>

\* open(output_path, 'w') and the writes of the XML text and the encoded data
CvWrite ==
    /\ cv_pc = "write"
    /\ LET dims == cv.tissue_data.shape
           extent == <<0, dims[1] - 1, 0, dims[2] - 1, 0, dims[3] - 1>>
       IN  vti_file' = [opened |-> TRUE, whole_extent |-> extent,
                        piece_extent |-> extent, spacing |-> "0.5 0.5 0.5",
                        type |-> "UInt8", encoded |-> encoded_data(cv.tissue_data)]
    /\ cv_pc' = "done"
    /\ UNCHANGED <<mat_file, cv, codecVars, dsVars, tblVars>>

NextConvert == CvCall \/ CvLoad \/ CvRemap \/ CvWrite

----------------------------------------------------------------------------
(* Claims about convert_mat_to_vti.                                        *)

\* the 6-bit value of a character of the base64 alphabet
B64Value(c) ==
    IF c >= 65 /\ c <= 90 THEN c - 65
    ELSE IF c >= 97 /\ c <= 122 THEN c - 71
    ELSE IF c >= 48 /\ c <= 57 THEN c + 4
    ELSE IF c = 43 THEN 62 ELSE 63

\* the bytes a reader of the .vti file gets from the base64 text
RECURSIVE b64decode(_)
b64decode(cs) ==
    IF Len(cs) < 4 THEN <<>>
    ELSE LET b1 == B64Value(cs[1]) * 4 + B64Value(cs[2]) \div 16
             b2 == (B64Value(cs[2]) % 16) * 16 + B64Value(cs[3]) \div 4
             b3 == (B64Value(cs[3]) % 4) * 64 + B64Value(cs[4])
         IN  (IF cs[3] = 61 THEN <<b1>>
              ELSE IF cs[4] = 61 THEN <<b1, b2>>
              ELSE <<b1, b2, b3>>)
             \o b64decode(SubSeq(cs, 5, Len(cs)))

\* the byte of voxel x in the DataArray of the file: the bytes follow the 8
\* bytes of the size, in column-major order
OutputByte(x) ==
    LET raw == b64decode(vti_file.encoded)
        shape == mat_file.tissuedistrib.shape
    IN  raw[8 + 1 + x[1] + shape[1] * (x[2] + shape[2] * x[3])]

InputLabel(x) == mat_file.tissuedistrib.at[x]

\* C12: for every 'tissuedistrib' array of unsigned 16-bit labels the converter
\* has written, every voxel whose input label is 50 is written as 0, every
\* other voxel is written with its input label, and two voxels of different
\* non-background labels never have the same output byte; and when the key
\* 'tissuedistrib' is absent the conversion fails and the output file is not
\* opened.
C12_LabelMapping ==
    /\ cv_pc = "done" =>
          \A x \in Indices(mat_file.tissuedistrib.shape) :
             /\ InputLabel(x) = BACKGROUND_VALUE => OutputByte(x) = 0
             /\ InputLabel(x) # BACKGROUND_VALUE => OutputByte(x) = InputLabel(x)
             /\ \A y \in Indices(mat_file.tissuedistrib.shape) :
                   (/\ InputLabel(x) # BACKGROUND_VALUE
                    /\ InputLabel(y) # BACKGROUND_VALUE
                    /\ InputLabel(x) # InputLabel(y))
                      => OutputByte(x) # OutputByte(y)
    /\ (mat_file.kind = "mat" /\ ~mat_file.has_key /\ cv_pc # "load") =>
          cv_pc = "failed" /\ cv.err = "KeyError" /\ ~vti_file.opened

----------------------------------------------------------------------------
(* Specifications.                                                         *)

Init == CodecInit /\ DsInit /\ TblInit /\ CvInit

\* the codec, the table builder or the converter on its own: downsample_ply is
\* not called
InitAlone == Init /\ out_file = NoFile

SpecCodec == InitAlone /\ [][NextCodec]_vars

SpecDownsample == Init /\ [][NextDownsample]_vars

SpecTable == InitAlone /\ [][NextTable]_vars

SpecConvert == InitAlone /\ [][NextConvert]_vars

====
